---- MODULE Spec2Model ----
(***************************************************************************)
(* domain-scout (src/src/index.ts): the `print` and `file` commands.       *)
(*                                                                         *)
(* A string is a sequence of one-character strings, so that split, trim,   *)
(* toLowerCase, includes and length are computed character by character.   *)
(* One run of the program is one behaviour: the commander action callback, *)
(* the resolution or rejection of rawTldsPromise, the setTimeout callback  *)
(* (one step per iteration of its for loop), the completion of each DNS    *)
(* lookup with its continuation, the completion of each fs.writeFile, and  *)
(* the exit of the process.                                                *)
(***************************************************************************)
EXTENDS Integers, Sequences, FiniteSets, TLC

VARIABLES
    command,    \* "print" | "file": the sub-command commander dispatched
    sld,        \* the <sld> argument
    options,    \* the options bag commander hands to the action
    source,     \* what the TLD source will answer (environment)
    pc,         \* position of the run
    header,     \* `header` after tlds.shift()
    tlds,       \* `tlds` after tlds.shift()
    i,          \* index of the next element the for..of loop reads
    validated,  \* log of the validateTld calls made: <<tld, maxLength, result>>
    candidates, \* log of the Domain objects built, in construction order
    lookups,    \* loop index -> the DNS lookup started for it
    console,    \* lines written by console.log, in order
    writes,     \* fs.writeFile requests issued, in order of issue
    file,       \* content of the output file
    timer,      \* the setTimeout of the then callback: "unset", "armed", "fired"
    exitCode    \* "running" until the process ends, then its exit code

vars == <<command, sld, options, source, pc, header, tlds, i, validated,
          candidates, lookups, console, writes, file, timer, exitCode>>

(***************************************************************************)
(* Bounds and inputs                                                       *)
(***************************************************************************)
MaxLines == 2

\* JavaScript values that are not strings
Undefined == [type |-> "undefined"]
String(chars) == [type |-> "string", value |-> chars]

\* the strings the inputs are built from
s_example == <<"e","x","a","m","p","l","e">>
s_Foo     == <<" ","F","o","o"," ">>
s_header  == <<"#","h","e","a","d","e","r">>
s_com     == <<"c","o","m">>
s_net     == <<"n","e","t">>
s_info    == <<"i","n","f","o">>
s_COM     == <<" ","C","O","M"," ">>
s_coop    == <<"c","o","-","o","p">>
s_xn      == <<"x","n","-","-","p","1","a","i">>
s_blank   == <<" ">>
s_old     == <<"o","l","d",".","o","r","g","\n">>
s_3       == <<"3">>

LF == <<"\n">>
CRLF == <<"\r","\n">>

\* every line followed by a line feed
RECURSIVE Unlines(_)
Unlines(ls) == IF ls = <<>> THEN <<>> ELSE Head(ls) \o LF \o Unlines(Tail(ls))

LinePool == {s_COM, s_coop, s_info, s_blank}

GeneratedTexts ==
    {Unlines(<<s_header>> \o ls) :
        ls \in UNION {[1..n -> LinePool] : n \in 0..MaxLines}}

ExampleText == Unlines(<<s_header, s_com, s_net, s_xn, s_coop>>)

\* CRLF line ends, a blank line, and one line of every kind
MixedText ==
    s_header \o CRLF \o s_COM \o CRLF \o CRLF \o s_info \o LF \o s_coop
        \o LF \o s_blank \o LF

FixedTexts ==
    { <<>>,                                          \* empty source
      s_header,                                      \* header only, no newline
      s_com \o LF \o s_com,                          \* header equal to a later line
      LF \o s_com \o LF,                             \* text starting with a newline
      MixedText,
      ExampleText }

Texts == GeneratedTexts \cup FixedTexts

Slds == {s_example, s_Foo}

\* commander passes the <chars> of --max as typed: a string, or undefined
MaxOptions == {Undefined, String(s_3)}

(***************************************************************************)
(* String primitives of the JavaScript runtime                             *)
(***************************************************************************)
\* WhiteSpace and LineTerminator characters String.prototype.trim strips
WhiteSpace == {" ", "\t", "\n", "\r"}

RECURSIVE trimStart(_)
trimStart(s) ==
    IF s # <<>> /\ Head(s) \in WhiteSpace THEN trimStart(Tail(s)) ELSE s

RECURSIVE trimEnd(_)
trimEnd(s) ==
    IF s # <<>> /\ s[Len(s)] \in WhiteSpace
    THEN trimEnd(SubSeq(s, 1, Len(s) - 1))
    ELSE s

trim(s) == trimEnd(trimStart(s))

UpperCase == <<"A","B","C","D","E","F","G","H","I","J","K","L","M",
               "N","O","P","Q","R","S","T","U","V","W","X","Y","Z">>
LowerCase == <<"a","b","c","d","e","f","g","h","i","j","k","l","m",
               "n","o","p","q","r","s","t","u","v","w","x","y","z">>

\* the lower-case mapping of the letters A..Z; other characters map to themselves
LowerOf ==
    [c \in {UpperCase[n] : n \in 1..26} |->
        LowerCase[CHOOSE n \in 1..26 : UpperCase[n] = c]]

toLowerCaseChar(c) == IF c \in DOMAIN LowerOf THEN LowerOf[c] ELSE c

toLowerCase(s) == [k \in 1..Len(s) |-> toLowerCaseChar(s[k])]

\* s.includes(c) for a one-character search string c
includes(s, c) == \E k \in 1..Len(s) : s[k] = c

\* s.split(/[\r\n]+/): a maximal run of CR/LF characters is one separator;
\* the result always has at least one element
LineBreak == {"\r", "\n"}

RECURSIVE splitFrom(_, _, _, _)
splitFrom(s, k, cur, inSep) ==
    IF k > Len(s) THEN <<cur>>
    ELSE IF s[k] \in LineBreak
         THEN IF inSep THEN splitFrom(s, k + 1, cur, TRUE)
              ELSE <<cur>> \o splitFrom(s, k + 1, <<>>, TRUE)
         ELSE splitFrom(s, k + 1, Append(cur, s[k]), FALSE)

split(s) == splitFrom(s, 1, <<>>, FALSE)

\* ToNumber of the abstract relational comparison: undefined is NaN, a string
\* of decimal digits is its value, any other string is NaN
Digits == <<"0","1","2","3","4","5","6","7","8","9">>
IsDigit(c) == \E n \in 1..10 : Digits[n] = c
DigitValue(c) == (CHOOSE n \in 1..10 : Digits[n] = c) - 1

RECURSIVE DecimalValue(_)
DecimalValue(s) ==
    IF s = <<>> THEN 0
    ELSE 10 * DecimalValue(SubSeq(s, 1, Len(s) - 1)) + DigitValue(s[Len(s)])

ToNumber(v) ==
    IF v.type = "string" /\ trim(v.value) # <<>>
       /\ \A k \in 1..Len(trim(v.value)) : IsDigit(trim(v.value)[k])
    THEN [nan |-> FALSE, value |-> DecimalValue(trim(v.value))]
    ELSE IF v.type = "string" /\ trim(v.value) = <<>>
    THEN [nan |-> FALSE, value |-> 0]
    ELSE [nan |-> TRUE, value |-> 0]

\* n > v for a number n: false whenever ToNumber(v) is NaN
GreaterThan(n, v) == ~ToNumber(v).nan /\ n > ToNumber(v).value

(***************************************************************************)
(* Functions and classes of index.ts                                       *)
(***************************************************************************)
validateTld_acceptEmpty(tld, maxLength) ==
    IF GreaterThan(Len(trim(tld)), maxLength) THEN FALSE
    ELSE IF includes(tld, "-") THEN FALSE
    ELSE TRUE

validateTld_noTrim(tld, maxLength) ==
    IF tld = <<>> THEN FALSE
    ELSE IF GreaterThan(Len(tld), maxLength) THEN FALSE
    ELSE IF includes(tld, "-") THEN FALSE
    ELSE TRUE

validateTld(tld, maxLength) ==
    IF tld = <<>> THEN FALSE
    ELSE IF GreaterThan(Len(trim(tld)), maxLength) THEN FALSE
    ELSE IF includes(tld, "-") THEN FALSE
    ELSE TRUE

\* new Domain(sld, tld)
Domain_noTrim(sldArg, tldArg) ==
    [sld |-> toLowerCase(sldArg), tld |-> toLowerCase(tldArg)]

Domain(sldArg, tldArg) ==
    [sld |-> toLowerCase(trim(sldArg)), tld |-> toLowerCase(trim(tldArg))]

\* domain.full()
full(domain) ==
    trim(toLowerCase(domain.sld) \o <<".">> \o toLowerCase(domain.tld))

\* the outcomes of dnsPromises.lookup: it resolves with an address, or it
\* rejects; the catch clause of isDomainAvailable never reads the error, so
\* one rejection stands for every reason (ENOTFOUND, timeout, network
\* error, malformed name)
LookupResults == {"address", "rejected"}

isDomainAvailable_inverted(result) == IF result = "address" THEN TRUE ELSE FALSE

isDomainAvailable(result) == IF result = "address" THEN FALSE ELSE TRUE

availablePrefix   == <<"[","+","]"," ">>
unavailablePrefix == <<"[","-","]"," ">>
unknownPrefix     == <<"[","?","]"," ">>

\* the data newLineAppendToFile hands to fs.writeFile with flag "a"
newLineAppendToFile_noNewline(text) == text

newLineAppendToFile(text) == text \o <<"\n">>

(***************************************************************************)
(* The run                                                                 *)
(***************************************************************************)
\* the options commander can hand to each action; a flag that was not given
\* is undefined there and is read only for its truthiness
PrintOptions ==
    [test : BOOLEAN, ignoreUnavailable : BOOLEAN, max : MaxOptions,
     list : BOOLEAN, disablePrefix : BOOLEAN]

FileOptions ==
    [test : {FALSE}, ignoreUnavailable : BOOLEAN, max : MaxOptions,
     list : BOOLEAN, disablePrefix : {FALSE}]

\* what the source answers: fs.readFile resolves with the file's text or
\* rejects; node-fetch resolves with a response whatever its HTTP status and
\* res.text() is its body, or rejects when the request itself fails
FileSources ==
    [outcome : {"read"}, body : Texts] \cup {[outcome |-> "ENOENT", body |-> <<>>]}

UrlSources ==
    [outcome : {"200", "404"}, body : FixedTexts]
        \cup {[outcome |-> "ECONNREFUSED", body |-> <<>>]}

SourceRejects == source.outcome \in {"ENOENT", "ECONNREFUSED"}

\* exit code of a process whose promise rejection nobody handles: Node before
\* version 15 prints a warning and ends normally, later versions throw
UnhandledRejectionExitCodes == {0, 1}

NoLookups == [k \in {} |-> [state |-> "pending"]]

Line(kind, color, prefix, text, k) ==
    [kind |-> kind, color |-> color, prefix |-> prefix, text |-> text, k |-> k]

Init ==
    /\ command \in {"print", "file"}
    /\ sld \in Slds
    /\ options \in IF command = "print" THEN PrintOptions ELSE FileOptions
    /\ source \in IF options.list THEN FileSources ELSE UrlSources
    /\ pc = "start"
    /\ header = <<>>
    /\ tlds = <<>>
    /\ i = 1
    /\ validated = <<>>
    /\ candidates = <<>>
    /\ lookups = NoLookups
    /\ console = <<>>
    /\ writes = <<>>
    /\ file = s_old
    /\ timer = "unset"
    /\ exitCode = 0

\* const test = options.test || ignoreUnavailable  (print action)
test_flagOnly == options.test

test_always == TRUE

test == options.test \/ options.ignoreUnavailable

\* the action callback up to the creation of rawTldsPromise
Action(cmd) ==
    /\ pc = "start"
    /\ command = cmd
    /\ console' = Append(console, Line("intro", "magenta", <<>>, <<>>, 0))
    /\ pc' = "loading"
    /\ UNCHANGED <<command, sld, options, source, header, tlds, i, validated,
                   candidates, lookups, writes, file, exitCode, timer>>

PrintAction == Action("print")

FileAction == Action("file")

\* const tlds = rawTlds.split(/[\r\n]+/); let header = tlds.shift()
parse_noShift(rawTlds) == [header |-> split(rawTlds)[1], tlds |-> split(rawTlds)]

RECURSIVE Distinct(_)
Distinct(s) ==
    IF s = <<>> THEN <<>>
    ELSE LET front == Distinct(SubSeq(s, 1, Len(s) - 1))
         IN  IF \E n \in DOMAIN front : front[n] = s[Len(s)]
             THEN front ELSE Append(front, s[Len(s)])

parse_dedup(rawTlds) ==
    [header |-> Head(split(rawTlds)), tlds |-> Distinct(Tail(split(rawTlds)))]

parse(rawTlds) ==
    [header |-> Head(split(rawTlds)), tlds |-> Tail(split(rawTlds))]

Loaded_noDelay(cmd) ==
    /\ pc = "loading"
    /\ command = cmd
    /\ ~SourceRejects
    /\ header' = parse(source.body).header
    /\ tlds' = parse(source.body).tlds
    /\ console' = console
            \o << Line("header", "magenta", <<>>, parse(source.body).header, 0),
                  Line("checking", "blue", <<>>, sld, 0) >>
    /\ pc' = IF parse(source.body).tlds = <<>> THEN "idle" ELSE "loop"
    /\ UNCHANGED <<command, sld, options, source, i, validated, candidates,
                   lookups, writes, file, exitCode, timer>>

\* rawTldsPromise resolves: the then callback parses, logs the header and the
\* "Checking all TLDs" line, and arms the 2000 ms timer
Loaded(cmd) ==
    /\ pc = "loading"
    /\ command = cmd
    /\ ~SourceRejects
    /\ header' = parse(source.body).header
    /\ tlds' = parse(source.body).tlds
    /\ console' = console
            \o << Line("header", "magenta", <<>>, parse(source.body).header, 0),
                  Line("checking", "blue", <<>>, sld, 0) >>
    /\ pc' = "delay"
    /\ timer' = "armed"
    /\ UNCHANGED <<command, sld, options, source, i, validated, candidates,
                   lookups, writes, file, exitCode>>

PrintLoaded == Loaded("print")

FileLoaded == Loaded("file")

\* rawTldsPromise rejects: no rejection handler is attached, the then
\* callback never runs
LoadRejected ==
    /\ pc = "loading"
    /\ SourceRejects
    /\ pc' = "rejected"
    /\ UNCHANGED <<command, sld, options, source, header, tlds, i, validated,
                   candidates, lookups, console, writes, file, exitCode, timer>>

\* the timer fires and the for..of loop of its callback starts; the loop's
\* iterations follow as LoopStep, and nothing else runs until it has ended
TimerFires ==
    /\ pc = "delay"
    /\ i' = 1
    /\ timer = "armed"
    /\ timer' = "fired"
    /\ pc' = IF tlds = <<>> THEN "idle" ELSE "loop"
    /\ UNCHANGED <<command, sld, options, source, header, tlds, validated,
                   candidates, lookups, console, writes, file, exitCode>>

StartLookup(domain) ==
    lookups' = (i :> [domain |-> domain, state |-> "pending", result |-> "none"])
                    @@ lookups

Validate(tld) ==
    validated' = Append(validated,
        [tld |-> tld, maxLength |-> options.max,
         result |-> validateTld(tld, options.max)])

Build(tld) ==
    candidates' = Append(candidates,
        [k |-> i, sld |-> sld, tld |-> tld, domain |-> Domain(sld, tld)])

\* if (!validateTld(tld, max)) continue;
Skip_never(tld) == FALSE

Skip(tld) == ~validateTld(tld, options.max)

Advance ==
    /\ i' = i + 1
    /\ pc' = IF i = Len(tlds) THEN "idle" ELSE "loop"

\* one iteration of the print action's loop
PrintLoopStep ==
    /\ pc = "loop"
    /\ command = "print"
    /\ Validate(tlds[i])
    /\ Advance
    /\ IF Skip(tlds[i])
       THEN UNCHANGED <<candidates, lookups, console>>
       ELSE /\ Build(tlds[i])
            /\ IF test
               THEN /\ StartLookup(Domain(sld, tlds[i]))
                    /\ UNCHANGED console
               ELSE /\ console' = Append(console,
                        Line("result", "yellow",
                             IF options.disablePrefix THEN <<>> ELSE unknownPrefix,
                             full(Domain(sld, tlds[i])), i))
                    /\ UNCHANGED lookups
    /\ UNCHANGED <<command, sld, options, source, header, tlds, writes, file,
                   exitCode, timer>>

\* newLineAppendToFile(fileName, text): fs.writeFile is started, not awaited
IssueWrite_dedup(text, k) ==
    writes' = IF \E w \in DOMAIN writes : writes[w].data = newLineAppendToFile(text)
              THEN writes
              ELSE Append(writes,
                    [data |-> newLineAppendToFile(text), k |-> k, done |-> FALSE])

IssueWrite(text, k) ==
    writes' = Append(writes,
        [data |-> newLineAppendToFile(text), k |-> k, done |-> FALSE])

\* one iteration of the file action's loop
FileLoopStep ==
    /\ pc = "loop"
    /\ command = "file"
    /\ Validate(tlds[i])
    /\ Advance
    /\ IF Skip(tlds[i])
       THEN UNCHANGED <<candidates, lookups, writes>>
       ELSE /\ Build(tlds[i])
            /\ IF options.ignoreUnavailable
               THEN /\ StartLookup(Domain(sld, tlds[i]))
                    /\ UNCHANGED writes
               ELSE /\ IssueWrite(full(Domain(sld, tlds[i])), i)
                    /\ UNCHANGED lookups
    /\ UNCHANGED <<command, sld, options, source, header, tlds, console, file,
                   exitCode, timer>>

Settle_retry(k, result) ==
    lookups' = [lookups EXCEPT ![k] =
                   IF result = "rejected" THEN @
                   ELSE [@ EXCEPT !.state = "settled", !.result = result]]

Settle_all(k, result) ==
    lookups' = [j \in DOMAIN lookups |->
                   [lookups[j] EXCEPT !.state = "settled", !.result = result]]

Settle(k, result) ==
    lookups' = [lookups EXCEPT ![k] = [@ EXCEPT !.state = "settled",
                                                  !.result = result]]

\* the continuation of candidate k runs as soon as its own lookup has ended
Ready_inListOrder(k) ==
    /\ lookups[k].state = "pending"
    /\ \A j \in DOMAIN lookups : j < k => lookups[j].state = "settled"

Ready(k) == lookups[k].state = "pending"

\* the `domain` the continuation of candidate k closes over: the binding of
\* its own loop iteration (let domain)
CapturedDomain_lastIteration(k) == candidates[Len(candidates)].domain

CapturedDomain(k) == lookups[k].domain

\* the lookup of candidate k ends with `result`: isDomainAvailable resolves
\* and the print action's continuation runs
PrintLookupDone(k, result) ==
    /\ pc = "idle"
    /\ command = "print"
    /\ k \in DOMAIN lookups
    /\ Ready(k)
    /\ Settle(k, result)
    /\ console' =
         IF isDomainAvailable(result)
         THEN Append(console,
                Line("result", "green",
                     IF options.disablePrefix THEN <<>> ELSE availablePrefix,
                     full(CapturedDomain(k)), k))
         ELSE IF ~options.ignoreUnavailable
         THEN Append(console,
                Line("result", "red",
                     IF options.disablePrefix THEN <<>> ELSE unavailablePrefix,
                     full(CapturedDomain(k)), k))
         ELSE console
    /\ UNCHANGED <<command, sld, options, source, pc, header, tlds, i,
                   validated, candidates, writes, file, exitCode, timer>>

\* the same for the file action's continuation
FileLookupDone(k, result) ==
    /\ pc = "idle"
    /\ command = "file"
    /\ k \in DOMAIN lookups
    /\ Ready(k)
    /\ Settle(k, result)
    /\ IF isDomainAvailable(result)
       THEN IssueWrite(full(CapturedDomain(k)), k)
       ELSE UNCHANGED writes
    /\ UNCHANGED <<command, sld, options, source, pc, header, tlds, i,
                   validated, candidates, console, file, exitCode, timer>>

\* a started fs.writeFile(fileName, data, {flag: "a"}) completes: the data
\* is appended to the file in one write
WriteCompletes_truncate(w) ==
    /\ pc = "idle"
    /\ w \in DOMAIN writes
    /\ ~writes[w].done
    /\ file' = writes[w].data
    /\ writes' = [writes EXCEPT ![w].done = TRUE]
    /\ UNCHANGED <<command, sld, options, source, pc, header, tlds, i,
                   validated, candidates, lookups, console, exitCode, timer>>

WriteCompletes(w) ==
    /\ pc = "idle"
    /\ w \in DOMAIN writes
    /\ ~writes[w].done
    /\ file' = file \o writes[w].data
    /\ writes' = [writes EXCEPT ![w].done = TRUE]
    /\ UNCHANGED <<command, sld, options, source, pc, header, tlds, i,
                   validated, candidates, lookups, console, exitCode, timer>>

Quiescent ==
    /\ \A k \in DOMAIN lookups : lookups[k].state = "settled"
    /\ \A w \in DOMAIN writes : writes[w].done

\* nothing is left on the event loop: the process ends normally
ProcessExit ==
    /\ pc = "idle"
    /\ Quiescent
    /\ pc' = "exited"
    /\ exitCode' = 0
    /\ UNCHANGED <<command, sld, options, source, header, tlds, i, validated,
                   candidates, lookups, console, writes, file, timer>>

\* the process ends after the unhandled rejection of rawTldsPromise
ExitAfterRejection ==
    /\ pc = "rejected"
    /\ pc' = "exited"
    /\ exitCode' \in UnhandledRejectionExitCodes
    /\ UNCHANGED <<command, sld, options, source, header, tlds, i, validated,
                   candidates, lookups, console, writes, file, timer>>

Next ==
    \/ PrintAction
    \/ FileAction
    \/ PrintLoaded
    \/ FileLoaded
    \/ LoadRejected
    \/ TimerFires
    \/ PrintLoopStep
    \/ FileLoopStep
    \/ \E k \in DOMAIN lookups : \E result \in LookupResults :
            PrintLookupDone(k, result)
    \/ \E k \in DOMAIN lookups : \E result \in LookupResults :
            FileLookupDone(k, result)
    \/ \E w \in DOMAIN writes : WriteCompletes(w)
    \/ ProcessExit
    \/ ExitAfterRejection

Spec == Init /\ [][Next]_vars

\* the event loop runs every callback that is ready, the timer fires, and
\* every started lookup and write completes
FairSpec == Spec /\ WF_vars(Next)

\* the promise of dnsPromises.lookup for candidate k never settles (a
\* resolver that does not answer): its await never returns
LookupHangs(k) ==
    /\ pc = "idle"
    /\ lookups[k].state = "pending"
    /\ lookups' = [lookups EXCEPT ![k] = [@ EXCEPT !.state = "hung"]]
    /\ UNCHANGED <<command, sld, options, source, pc, header, tlds, i,
                   validated, candidates, console, writes, file, exitCode,
                   timer>>

\* runs over the fixed source texts in which lookups may also hang
InitHang == Init /\ source.body \in FixedTexts

NextHang ==
    \/ Next
    \/ \E k \in DOMAIN lookups : LookupHangs(k)

\* every callback that is ready runs; a lookup may complete or hang
HangSpec == InitHang /\ [][NextHang]_vars /\ WF_vars(Next)

(***************************************************************************)
(* Vocabulary of the properties                                            *)
(***************************************************************************)
\* the lines of the source text, the header first
SourceLines == split(source.body)
PostHeader == Tail(SourceLines)

\* the fully-qualified domain the specification gives for (sld, tld)
Fqdn(s, t) == toLowerCase(trim(s)) \o <<".">> \o toLowerCase(trim(t))

RECURSIVE Ascending(_)
Ascending(S) ==
    IF S = {} THEN <<>>
    ELSE LET m == CHOOSE x \in S : \A y \in S : x <= y
         IN <<m>> \o Ascending(S \ {m})

\* positions (among the post-header lines) of the lines that pass the
\* filter, in source order
ValidPositions ==
    LET post == PostHeader
    IN  Ascending({j \in 1..Len(post) : validateTld(post[j], options.max)})

LoopOver == pc \in {"idle", "exited"}

\* the valid positions the loop has gone past
ReachedPositions ==
    LET valid == ValidPositions
    IN  IF LoopOver THEN valid
        ELSE IF pc = "loop"
        THEN SubSeq(valid, 1, Cardinality({n \in DOMAIN valid : valid[n] < i}))
        ELSE <<>>

RECURSIVE Select(_, _)
Select(s, kind) ==
    IF s = <<>> THEN <<>>
    ELSE IF Head(s).kind = kind THEN <<Head(s)>> \o Select(Tail(s), kind)
    ELSE Select(Tail(s), kind)

\* the result lines on the console, in order
ResultLines == Select(console, "result")

Checking == IF command = "print" THEN test ELSE options.ignoreUnavailable

\* the text the run has added to the file, and its lines
AddedText == SubSeq(file, Len(s_old) + 1, Len(file))
NewLines == Cardinality({n \in 1..Len(AddedText) : AddedText[n] = "\n"})
AddedLines ==
    IF AddedText = <<>> THEN <<>>
    ELSE SubSeq(split(AddedText), 1, Len(split(AddedText)) - 1)

\* `text` was produced from line k + 1 of `lines`, a line after the first
FromPostHeaderLine(lines, k, text) ==
    /\ k + 1 \in 2..Len(lines)
    /\ text = Fqdn(sld, lines[k + 1])

(***************************************************************************)
(* C1: the header line of the source text is never turned into a           *)
(* candidate: in both modes every candidate built, every lookup started,   *)
(* every result line printed and every line handed to or appended to the   *)
(* file comes from a line after the first one.                             *)
(***************************************************************************)
C1_HeaderNeverCandidate ==
    LET lines == SourceLines
        built == {candidates[n].k : n \in DOMAIN candidates}
    IN
    /\ Len(candidates) <= Len(lines) - 1
    /\ \A n \in DOMAIN candidates :
          /\ candidates[n].k + 1 \in 2..Len(lines)
          /\ candidates[n].tld = lines[candidates[n].k + 1]
    /\ DOMAIN lookups \subseteq built
    /\ \A n \in DOMAIN console :
          console[n].kind = "result" =>
              /\ console[n].k \in built
              /\ FromPostHeaderLine(lines, console[n].k, console[n].text)
    /\ \A w \in DOMAIN writes :
          /\ writes[w].k \in built
          /\ writes[w].done =>
                FromPostHeaderLine(lines, writes[w].k,
                    SubSeq(writes[w].data, 1, Len(writes[w].data) - 1))
    /\ NewLines = Cardinality({w \in DOMAIN writes : writes[w].done})

\* a header that would itself pass the filter, and a finished run that
\* emitted something
C1_Witness ==
    /\ pc = "exited"
    /\ header = s_com
    /\ validateTld(header, options.max)
    /\ \/ ResultLines # <<>>
       \/ AddedLines # <<>>

(***************************************************************************)
(* C2: validateTld is false for the empty string, for a string holding a   *)
(* hyphen and for a string whose trimmed length exceeds maxLength; an      *)
(* unspecified maxLength rejects nothing; every other string is accepted.  *)
(***************************************************************************)
C2_Expected(tld, maxLength) ==
    /\ tld # <<>>
    /\ \A n \in 1..Len(tld) : tld[n] # "-"
    /\ \/ maxLength = Undefined
       \/ Len(trim(tld)) <= DecimalValue(maxLength.value)

\* C2: every call validateTld(tld, maxLength) a run makes returns what the
\* three rules give: false for empty, hyphenated or too long, true otherwise
C2_ValidateTld ==
    \A n \in DOMAIN validated :
        validated[n].result = C2_Expected(validated[n].tld, validated[n].maxLength)

\* one run that met an accepted padded line, a too long one, a hyphenated
\* one and the empty one
C2_Witness ==
    /\ options.max = String(s_3)
    /\ \E n \in DOMAIN validated : validated[n].tld = s_COM /\ validated[n].result
    /\ \E n \in DOMAIN validated : validated[n].tld = s_info /\ ~validated[n].result
    /\ \E n \in DOMAIN validated : validated[n].tld = s_coop /\ ~validated[n].result
    /\ \E n \in DOMAIN validated : validated[n].tld = <<>> /\ ~validated[n].result

(***************************************************************************)
(* C3: for every (sld, tld) a Domain is built and its full() is            *)
(* lower-case(trim(sld)) + "." + lower-case(trim(tld)); Domain(" Foo ",    *)
(* " COM ").full() is "foo.com"; the object a continuation reads later is  *)
(* the one that was built.                                                 *)
(***************************************************************************)
C3_DomainFull ==
    /\ \A n \in DOMAIN candidates :
          LET c == candidates[n] IN
          /\ full(c.domain) = Fqdn(c.sld, c.tld)
          /\ c.sld = s_Foo /\ c.tld = s_COM =>
                full(c.domain) = <<"f","o","o",".","c","o","m">>
          /\ c.k \in DOMAIN lookups => lookups[c.k].domain = c.domain
    /\ Len(validated) >= Len(candidates)
    /\ \A n \in DOMAIN validated :
          validated[n].result =>
              \E m \in DOMAIN candidates : candidates[m].tld = validated[n].tld

C3_Witness ==
    \E n \in DOMAIN candidates :
        /\ candidates[n].sld = s_Foo
        /\ candidates[n].tld = s_COM
        /\ full(candidates[n].domain) = <<"f","o","o",".","c","o","m">>

\* the category a result line shows: its colour, and its prefix unless
\* --disable-prefix suppressed it
Marker(line) ==
    CASE line.color = "green" /\ line.prefix \in {availablePrefix, <<>>} -> "available"
      [] line.color = "red" /\ line.prefix \in {unavailablePrefix, <<>>} -> "unavailable"
      [] line.color = "yellow" /\ line.prefix \in {unknownPrefix, <<>>} -> "unknown"
      [] OTHER -> "none"

s_example_com == s_example \o <<".">> \o s_com
s_example_net == s_example \o <<".">> \o s_net

(***************************************************************************)
(* C4: in every mode the candidates the run processes are exactly the      *)
(* post-header lines that pass validateTld with the configured max, each   *)
(* paired with the SLD, in source order, duplicates kept; the example text *)
(* with SLD "example" and max 3 gives example.com then example.net.        *)
(***************************************************************************)
C4_CandidateSequence ==
    LET post == PostHeader
        reached == ReachedPositions
        ks == {candidates[n].k : n \in DOMAIN candidates}
    IN
    /\ Len(candidates) = Len(reached)
    /\ \A n \in DOMAIN candidates :
          /\ candidates[n].k = reached[n]
          /\ full(candidates[n].domain) = Fqdn(sld, post[reached[n]])
    /\ IF Checking
       THEN DOMAIN lookups = ks
       ELSE IF command = "print"
       THEN LET lines == ResultLines IN
            /\ Len(lines) = Len(candidates)
            /\ \A n \in DOMAIN lines :
                  /\ lines[n].k = candidates[n].k
                  /\ lines[n].text = full(candidates[n].domain)
       ELSE /\ Len(writes) = Len(candidates)
            /\ \A n \in DOMAIN writes :
                  /\ writes[n].k = candidates[n].k
                  /\ writes[n].data = full(candidates[n].domain) \o <<"\n">>
    /\ source.body = ExampleText /\ sld = s_example /\ options.max = String(s_3)
          /\ LoopOver =>
          [n \in DOMAIN candidates |-> full(candidates[n].domain)]
              = <<s_example_com, s_example_net>>

\* the example run, over
C4_Witness ==
    /\ source.body = ExampleText
    /\ sld = s_example
    /\ options.max = String(s_3)
    /\ pc = "exited"
    /\ exitCode = 0
    /\ Len(candidates) = 2

(***************************************************************************)
(* C5: in print mode with checking disabled no lookup is ever started and  *)
(* the console receives exactly one result line per valid TLD, each with   *)
(* the "unknown" marker, in source order.                                  *)
(***************************************************************************)
C5_UncheckedPrint ==
    command = "print" /\ ~options.test /\ ~options.ignoreUnavailable =>
        LET post == PostHeader
            reached == ReachedPositions
            lines == ResultLines
        IN
        /\ DOMAIN lookups = {}
        /\ Len(lines) = Len(reached)
        /\ LoopOver => Len(lines) = Len(ValidPositions)
        /\ \A n \in DOMAIN lines :
              /\ Marker(lines[n]) = "unknown"
              /\ lines[n].prefix = IF options.disablePrefix THEN <<>> ELSE unknownPrefix
              /\ lines[n].k = reached[n]
              /\ lines[n].text = Fqdn(sld, post[reached[n]])

\* an unchecked print run, over, that printed two different lines
C5_Witness ==
    /\ command = "print"
    /\ ~options.test
    /\ ~options.ignoreUnavailable
    /\ pc = "exited"
    /\ Len(ResultLines) >= 2
    /\ ResultLines[1].text # ResultLines[2].text

\* the lookups that have ended, by outcome
Rejected == {k \in DOMAIN lookups : lookups[k].result = "rejected"}
Resolved == {k \in DOMAIN lookups : lookups[k].result = "address"}

LinesOf(k) == {n \in DOMAIN console : console[n].kind = "result" /\ console[n].k = k}
WritesOf(k) == {w \in DOMAIN writes : writes[w].k = k}

(***************************************************************************)
(* C6: with checking enabled, a run in which every lookup fails ends with  *)
(* every valid candidate classified Available: in print mode each has been *)
(* printed once with the available marker and none with the unavailable    *)
(* marker, in file mode each has been appended.                            *)
(***************************************************************************)
C6_AtExit ==
    /\ pc = "exited"
    /\ Checking /\ Resolved = {} =>
        LET valid == ValidPositions
            post == PostHeader
        IN
        /\ DOMAIN lookups = {valid[n] : n \in DOMAIN valid}
        /\ \A k \in DOMAIN lookups :
              IF command = "print"
              THEN /\ Cardinality(LinesOf(k)) = 1
                   /\ \A n \in LinesOf(k) :
                         /\ Marker(console[n]) = "available"
                         /\ console[n].text = Fqdn(sld, post[k])
              ELSE /\ Cardinality(WritesOf(k)) = 1
                   /\ \A w \in WritesOf(k) : writes[w].done
        /\ command = "print" => Len(ResultLines) = Len(valid)
        /\ command = "file" => NewLines = Len(valid)

\* C6: every run ends, and a checked run in which every lookup failed ends
\* with each valid candidate emitted once as Available
C6_AllLookupsFail == <>C6_AtExit

\* a checked print run, over, in which two lookups failed and none succeeded
C6_Witness ==
    /\ pc = "exited"
    /\ command = "print"
    /\ test
    /\ Resolved = {}
    /\ Cardinality(Rejected) >= 2
    /\ \A k \in Rejected : \E n \in LinesOf(k) : Marker(console[n]) = "available"

(***************************************************************************)
(* C7: in file mode with --ignore-unavailable a line is appended for a     *)
(* candidate only if its own lookup failed (Available), at most once, and  *)
(* when everything has completed the number of lines added to the file is  *)
(* the number of candidates classified Available.                          *)
(***************************************************************************)
C7_OnlyAvailableAppended ==
    command = "file" /\ options.ignoreUnavailable =>
        /\ \A w \in DOMAIN writes :
              /\ writes[w].k \in Rejected
              /\ Cardinality(WritesOf(writes[w].k)) = 1
        /\ NewLines <= Cardinality(Rejected)
        /\ pc = "exited" =>
              /\ NewLines = Cardinality(Rejected)
              /\ \A k \in Rejected : Cardinality(WritesOf(k)) = 1

\* a finished run with one candidate of each outcome
C7_Witness ==
    /\ command = "file"
    /\ options.ignoreUnavailable
    /\ pc = "exited"
    /\ Resolved # {}
    /\ Rejected # {}
    /\ NewLines = Cardinality(Rejected)

(***************************************************************************)
(* C8: if source loading fails (unreadable file, network failure, or a     *)
(* non-success HTTP status such as 404) the run emits no candidate, starts *)
(* no lookup, and ends with a non-zero completion signal.                  *)
(***************************************************************************)
SourceFailed == source.outcome \in {"ENOENT", "ECONNREFUSED", "404"}

\* C8: a failed source load leaves nothing emitted and a non-zero exit code
C8_SourceFailureIsFatal ==
    SourceFailed =>
        /\ candidates = <<>>
        /\ DOMAIN lookups = {}
        /\ ResultLines = <<>>
        /\ writes = <<>>
        /\ file = s_old
        /\ pc = "exited" => exitCode # 0

(***************************************************************************)
(* C9 as stated: no state in which a check has started or a result has     *)
(* been issued while a later TLD of the list is still unvalidated.         *)
(***************************************************************************)
FanOutBegun == DOMAIN lookups # {} \/ ResultLines # <<>> \/ writes # <<>>

\* C9 as stated: once the fan-out has begun the whole list is validated
C9_AllValidatedBeforeFanOut == FanOutBegun => Len(validated) = Len(tlds)

(***************************************************************************)
(* C9 amended: loading and parsing are finished before any TLD is          *)
(* validated, and every TLD is validated (and accepted) before its own     *)
(* check is launched or its own result issued; the validation of later     *)
(* TLDs follows the launch or emission of earlier ones.                    *)
(***************************************************************************)
ValidatedAndAccepted(k) ==
    /\ k \in DOMAIN validated
    /\ validated[k].tld = tlds[k]
    /\ validated[k].result

\* C9 amended: parsing precedes every validation, and a TLD's validation
\* precedes its own lookup, result line and append
C9_EachValidatedBeforeItsFanOut ==
    /\ validated # <<>> =>
          /\ pc \in {"loop", "idle", "exited"}
          /\ Len(console) >= 3
          /\ console[2].kind = "header"
          /\ Len(validated) <= Len(tlds)
    /\ \A k \in DOMAIN lookups : ValidatedAndAccepted(k)
    /\ \A n \in DOMAIN console :
          console[n].kind = "result" => ValidatedAndAccepted(console[n].k)
    /\ \A w \in DOMAIN writes : ValidatedAndAccepted(writes[w].k)

\* the loop between two iterations: the first TLD's check is running or
\* its result is out, the second TLD has not been validated
C9_Witness ==
    /\ pc = "loop"
    /\ FanOutBegun
    /\ Len(validated) < Len(tlds)
    /\ validateTld(tlds[i], options.max)

(***************************************************************************)
(* C10: in print mode --ignore-unavailable without --test turns checking   *)
(* on: a lookup is launched for every valid candidate, no line carries the *)
(* "unknown" marker, and no candidate whose lookup succeeded is printed.   *)
(***************************************************************************)
C10_IgnoreImpliesTest ==
    command = "print" /\ options.ignoreUnavailable /\ ~options.test =>
        LET reached == ReachedPositions IN
        /\ DOMAIN lookups = {reached[n] : n \in DOMAIN reached}
        /\ \A n \in DOMAIN console :
              console[n].kind = "result" =>
                  /\ Marker(console[n]) = "available"
                  /\ console[n].k \in Rejected
        /\ \A k \in Resolved : LinesOf(k) = {}

\* such a run, over, with a lookup of each outcome
C10_Witness ==
    /\ command = "print"
    /\ options.ignoreUnavailable
    /\ ~options.test
    /\ pc = "exited"
    /\ Resolved # {}
    /\ Rejected # {}
    /\ Len(ResultLines) = Cardinality(Rejected)

(***************************************************************************)
(* C11: in file mode without --ignore-unavailable no lookup is performed   *)
(* and exactly one newline-terminated line holding the fully-qualified     *)
(* domain is appended for every valid candidate, duplicates included.      *)
(***************************************************************************)
C11_UncheckedFile ==
    command = "file" /\ ~options.ignoreUnavailable =>
        LET post == PostHeader
            reached == ReachedPositions
        IN
        /\ DOMAIN lookups = {}
        /\ Len(writes) = Len(reached)
        /\ \A n \in DOMAIN writes :
              /\ writes[n].k = reached[n]
              /\ writes[n].data = Fqdn(sld, post[reached[n]]) \o <<"\n">>
        /\ NewLines = Cardinality({w \in DOMAIN writes : writes[w].done})
        /\ pc = "exited" =>
              /\ NewLines = Len(ValidPositions)
              /\ Len(AddedLines) = Len(ValidPositions)
              /\ AddedText # <<>> => AddedText[Len(AddedText)] = "\n"

\* a finished unchecked file run that appended the same domain twice
C11_Witness ==
    /\ command = "file"
    /\ ~options.ignoreUnavailable
    /\ pc = "exited"
    /\ Len(AddedLines) >= 2
    /\ AddedLines[1] = AddedLines[2]

(***************************************************************************)
(* C12: a lookup that succeeds classifies its candidate Unavailable, one   *)
(* that fails classifies it Available; a failed lookup never aborts the    *)
(* run nor touches another candidate's check: every candidate is emitted   *)
(* by its own outcome, and a pending one is left pending.                  *)
(***************************************************************************)
C12_OwnOutcome ==
    Checking =>
        /\ \A k \in DOMAIN lookups :
              LET lines == LinesOf(k)
                  ws == WritesOf(k)
              IN
              CASE lookups[k].state = "pending" ->
                      lines = {} /\ ws = {} /\ lookups[k].result = "none"
                [] lookups[k].state = "settled" /\ lookups[k].result = "rejected" ->
                      IF command = "print"
                      THEN /\ Cardinality(lines) = 1
                           /\ \A n \in lines : Marker(console[n]) = "available"
                      ELSE Cardinality(ws) = 1
                [] lookups[k].state = "settled" /\ lookups[k].result = "address" ->
                      IF command = "print"
                      THEN /\ Cardinality(lines) =
                                 IF options.ignoreUnavailable THEN 0 ELSE 1
                           /\ \A n \in lines : Marker(console[n]) = "unavailable"
                      ELSE ws = {}
                [] OTHER -> lookups[k].state = "hung" /\ lines = {} /\ ws = {}
        /\ DOMAIN lookups # {} => pc \in {"loop", "idle", "exited"}
        /\ pc = "exited" /\ DOMAIN lookups # {} =>
              /\ exitCode = 0
              /\ \A k \in DOMAIN lookups : lookups[k].state = "settled"

\* a lookup has failed while another one is still running, and a later
\* state where that one has succeeded
C12_Witness ==
    /\ command = "print"
    /\ options.test
    /\ ~options.ignoreUnavailable
    /\ \E j, k \in DOMAIN lookups :
          /\ lookups[j].result = "rejected"
          /\ lookups[k].result = "address"
          /\ \E n \in LinesOf(k) : \E m \in LinesOf(j) :
                m < n /\ Marker(console[n]) = "unavailable"

(***************************************************************************)
(* C13: with checking enabled a lookup that never completes withholds only *)
(* its own result: the hung candidate is never emitted, every candidate    *)
(* whose lookup completes is emitted by its own outcome whatever the       *)
(* order, and no lookup is left waiting behind a hung one.                 *)
(***************************************************************************)
C13_HungEmitsNothing ==
    \A k \in DOMAIN lookups :
        lookups[k].state = "hung" => LinesOf(k) = {} /\ WritesOf(k) = {}

C13_CompletedAreEmitted ==
    \A k \in DOMAIN lookups :
        lookups[k].state = "settled" =>
            IF command = "print"
            THEN Cardinality(LinesOf(k)) =
                    IF lookups[k].result = "address" /\ options.ignoreUnavailable
                    THEN 0 ELSE 1
            ELSE Cardinality(WritesOf(k)) =
                    IF lookups[k].result = "rejected" THEN 1 ELSE 0

C13_NoneLeftWaiting ==
    /\ pc \in {"idle", "exited"}
    /\ \A k \in DOMAIN lookups : lookups[k].state \in {"settled", "hung"}
    /\ \A w \in DOMAIN writes : writes[w].done

C13_HangWithholdsOnlyItself ==
    /\ [](Checking => C13_HungEmitsNothing /\ C13_CompletedAreEmitted)
    /\ <>[]C13_NoneLeftWaiting

\* the first lookup hangs and the candidates after it are emitted, the last
\* one first
C13_Witness ==
    /\ command = "print"
    /\ ~options.ignoreUnavailable
    /\ \E h, j, k \in DOMAIN lookups :
          /\ h < j /\ j < k
          /\ lookups[h].state = "hung"
          /\ \E n \in LinesOf(j) : \E m \in LinesOf(k) : m < n

(***************************************************************************)
(* C14: in print mode with checking and without suppression every          *)
(* candidate whose check resolves is printed exactly once, in the step in  *)
(* which its own check resolves, so never more result lines than resolved  *)
(* checks; every valid candidate's check is launched once and a resolved   *)
(* check is never run again.                                               *)
(***************************************************************************)
C14_Case == command = "print" /\ test /\ ~options.ignoreUnavailable

C14_OneLinePerResolved ==
    C14_Case =>
        LET reached == ReachedPositions
            done == {k \in DOMAIN lookups : lookups[k].state = "settled"}
        IN
        /\ Len(ResultLines) = Cardinality(done)
        /\ \A k \in DOMAIN lookups :
              Cardinality(LinesOf(k)) = IF k \in done THEN 1 ELSE 0
        /\ Len(candidates) = Len(reached)
        /\ \A n \in DOMAIN candidates : candidates[n].k = reached[n]
        /\ DOMAIN lookups = {reached[n] : n \in DOMAIN reached}

C14_PrintedWhenResolved ==
    C14_Case =>
        \A k \in DOMAIN lookups :
            /\ lookups[k].state = "settled" =>
                  /\ k \in DOMAIN lookups'
                  /\ lookups'[k] = lookups[k]
            /\ lookups[k].state = "pending" /\ k \in DOMAIN lookups'
                    /\ lookups'[k].state = "settled" =>
                  /\ Len(console') = Len(console) + 1
                  /\ console'[Len(console')].kind = "result"
                  /\ console'[Len(console')].k = k

C14_PrintedOnceOnCompletion ==
    /\ []C14_OneLinePerResolved
    /\ [][C14_PrintedWhenResolved]_vars

\* a later candidate printed before an earlier one
C14_Witness ==
    /\ C14_Case
    /\ pc = "exited"
    /\ \E j, k \in DOMAIN lookups :
          /\ j < k
          /\ \E n \in LinesOf(j) : \E m \in LinesOf(k) : m < n

\* the line a write appends, without its newline
Body(w) == SubSeq(writes[w].data, 1, Len(writes[w].data) - 1)

(***************************************************************************)
(* C15: each append is atomic: whatever the order in which the started     *)
(* writes complete, the text added to the file is a permutation of the     *)
(* lines of the completed writes, each whole and newline-terminated, none  *)
(* lost, overwritten, duplicated or split, after the unchanged earlier     *)
(* content.                                                                *)
(***************************************************************************)
C15_AtomicAppends ==
    command = "file" =>
        /\ Len(file) >= Len(s_old)
        /\ SubSeq(file, 1, Len(s_old)) = s_old
        /\ LET lines == AddedLines
               done == {w \in DOMAIN writes : writes[w].done}
           IN
           /\ Len(lines) = Cardinality(done)
           /\ \A n \in DOMAIN lines : \E w \in done : Body(w) = lines[n]
           /\ \A w \in done :
                 /\ writes[w].data[Len(writes[w].data)] = "\n"
                 /\ Cardinality({n \in DOMAIN lines : lines[n] = Body(w)})
                      = Cardinality({v \in done : writes[v].data = writes[w].data})
           /\ lines # <<>> => file[Len(file)] = "\n"
           /\ pc = "exited" => done = DOMAIN writes

\* two appends of different lines that completed in the reverse of the
\* order in which they were started
C15_Witness ==
    /\ command = "file"
    /\ options.ignoreUnavailable
    /\ pc = "exited"
    /\ Len(writes) >= 2
    /\ Len(AddedLines) >= 2
    /\ AddedLines[1] = Body(2)
    /\ AddedLines[2] = Body(1)
    /\ Body(1) # Body(2)

\* C16: in file mode without --ignore-unavailable, once all appends have
\* completed the added lines stand in the order of their TLDs in the source
C16_FileInSourceOrder ==
    command = "file" /\ ~options.ignoreUnavailable /\ pc = "exited" =>
        LET post == PostHeader
            valid == ValidPositions
        IN  AddedLines = [n \in DOMAIN valid |-> Fqdn(sld, post[valid[n]])]

(***************************************************************************)
(* C17: the introductory line, the header line and the "Checking" line are *)
(* on the console before any result line or append; nothing is validated,  *)
(* checked or emitted before the source is loaded and parsed and the timer *)
(* armed after that has fired, in particular not while the timer runs.     *)
(***************************************************************************)
C17_FanOutAfterDelay ==
    /\ validated # <<>> \/ candidates # <<>> \/ FanOutBegun =>
          /\ timer = "fired"
          /\ Len(console) >= 3
          /\ console[1].kind = "intro"
          /\ console[2].kind = "header"
          /\ console[2].text = Head(SourceLines)
          /\ console[3].kind = "checking"
          /\ header = Head(SourceLines)
          /\ tlds = PostHeader
    /\ \A n \in DOMAIN console : console[n].kind = "result" => n > 3
    /\ timer = "armed" <=> pc = "delay"
    /\ timer = "unset" <=> pc \in {"start", "loading", "rejected"}
                              \/ (pc = "exited" /\ SourceRejects)
    /\ pc = "loop" => timer = "fired"

\* the timer has fired and the loop is emitting
C17_Witness ==
    /\ timer = "fired"
    /\ pc = "loop"
    /\ i > 1
    /\ \/ ResultLines # <<>>
       \/ writes # <<>>
       \/ DOMAIN lookups # {}

\* C18: no emitted fully-qualified domain ends in ".": lines that are empty
\* or blank after trimming never become candidates
C18_NoEmptyLabelEmitted ==
    /\ \A n \in DOMAIN console :
          console[n].kind = "result" =>
              console[n].text[Len(console[n].text)] # "."
    /\ \A w \in DOMAIN writes : Body(w)[Len(Body(w))] # "."

(***************************************************************************)
(* C19: every source text parses into a header and a list; for the empty   *)
(* text and for a text of only a header line the run builds no candidate,  *)
(* starts no lookup, emits nothing in either mode and ends normally.       *)
(***************************************************************************)
C19_NothingToDo ==
    /\ ~SourceRejects
    /\ \A n \in DOMAIN PostHeader : PostHeader[n] = <<>>

C19_EmptyListRunsClean ==
    /\ Len(SourceLines) >= 1
    /\ C19_NothingToDo =>
          /\ candidates = <<>>
          /\ DOMAIN lookups = {}
          /\ ResultLines = <<>>
          /\ writes = <<>>
          /\ file = s_old
          /\ pc # "rejected"
          /\ pc \in {"delay", "loop", "idle", "exited"} =>
                header = Head(SourceLines) /\ Len(console) = 3
          /\ pc = "exited" => exitCode = 0 /\ timer = "fired"

\* a finished run over the empty text, and over the header alone
C19_Witness ==
    /\ pc = "exited"
    /\ ~SourceRejects
    /\ source.body = <<>>
    /\ header = <<>>
    /\ tlds = <<>>

(***************************************************************************)
(* C20: a continuation is bound to its own candidate: the line printed or  *)
(* appended when the check of candidate k resolves holds candidate k's     *)
(* fully-qualified domain, and whether and how it is emitted follows       *)
(* candidate k's own outcome, whatever the order of completion.            *)
(***************************************************************************)
C20_OwnCandidate ==
    Checking =>
        LET post == PostHeader IN
        /\ \A n \in DOMAIN console :
              console[n].kind = "result" =>
                  LET k == console[n].k IN
                  /\ k \in DOMAIN lookups
                  /\ k \in DOMAIN post
                  /\ lookups[k].state = "settled"
                  /\ console[n].text = Fqdn(sld, post[k])
                  /\ Marker(console[n]) =
                        IF lookups[k].result = "rejected"
                        THEN "available" ELSE "unavailable"
                  /\ options.ignoreUnavailable => lookups[k].result = "rejected"
        /\ \A w \in DOMAIN writes :
              LET k == writes[w].k IN
              /\ k \in DOMAIN lookups
              /\ k \in DOMAIN post
              /\ lookups[k].result = "rejected"
              /\ writes[w].data = Fqdn(sld, post[k]) \o <<"\n">>

\* two candidates with different domains whose checks ended with different
\* outcomes, the later candidate's first
C20_Witness ==
    /\ command = "print"
    /\ Checking
    /\ \E j, k \in DOMAIN lookups :
          /\ j < k
          /\ lookups[j].result = "address"
          /\ lookups[k].result = "rejected"
          /\ full(lookups[j].domain) # full(lookups[k].domain)
          /\ \E n \in LinesOf(j) : \E m \in LinesOf(k) : m < n

====
